---- MODULE Spec2Model ----
(***************************************************************************)
(* A model of searchplatapi's SearchPlatAPI.h: the scope-filter builder    *)
(* BuildPrimingSqlFromScopes and the FileSearchProvider that primes a      *)
(* query once and reuses it for every search text.                         *)
(*                                                                         *)
(* A std::wstring is a sequence of one-character strings, so that what     *)
(* the code concatenates, replaces and indexes is visible character by     *)
(* character.  TLC's integers are 32 bits wide: a DWORD reuse token is     *)
(* drawn from values below 2^31.                                           *)
(***************************************************************************)
EXTENDS Integers, Sequences, FiniteSets, TLC

VARIABLES
    \* one call of searchapi::internal::BuildPrimingSqlFromScopes
    includedScopes,   \* the first argument
    excludedScopes,   \* the second argument
    oobReads,         \* what each read past the end of a scope's buffer gave
    queryStr,         \* the returned string
    buildStatus,      \* "input", "returned" or "fault"
    \* FileSearchProvider instances and the engine behind them
    m_prefetchSql,    \* provider -> std::wstring
    m_prefetchRowset, \* provider -> cursor id, NullRowset when the com_ptr is empty
    rowsets,          \* the engine's live cursors: id -> [whereId, rows]
    alive,            \* FALSE once the process has been terminated
    lastOp,           \* the last provider call: its arguments and what it did
    primed,           \* history: provider -> the last successful prepare, and whether it replaced one
    \* the process-wide service handles of the index management helpers
    cacheObjects,     \* CACHE_OBJECTS: TRUE when SEARCHPLAT_API_CACHE is defined
    s_cachedManager,
    s_cachedSystemIndexCatalogManager,
    s_cachedSystemIndexCrawlScopeManager,
    created,          \* history: kind of handle -> how many the service has created
    lastGet,          \* the last getter call and what it returned
    \* one run of a fetch loop on a cursor: EnumerateRowsWithCallback, or the do-while
    \* of GetTotalFilesInIndex
    enumPc,           \* "idle", "fetch", "rows", "returned", "thrown" or a "count..." position
    rowsInCursor,       \* the rows the cursor holds
    cursorPos,        \* the rows GetNextRows has handed out
    rowBuffer,        \* the row handles of the batch last fetched
    rowIndex,         \* i of the for loop
    callbackLog,      \* history: the rows passed to the callback, in call order
    heldRows,         \* the row handles fetched and not released
    batchSizes,          \* history: rowCountReturned of every fetch of the run
    totalFetched,     \* size_t totalFetched of GetTotalFilesInIndex, 64 bits
    totalAtEntry      \* history: totalFetched when the rounds that are followed began

buildVars == <<includedScopes, excludedScopes, oobReads, queryStr, buildStatus>>
providerVars == <<m_prefetchSql, m_prefetchRowset, rowsets, alive, lastOp, primed>>
cacheVars ==
    <<cacheObjects, s_cachedManager, s_cachedSystemIndexCatalogManager,
      s_cachedSystemIndexCrawlScopeManager, created, lastGet>>
enumVars ==
    <<enumPc, rowsInCursor, cursorPos, rowBuffer, rowIndex, callbackLog, heldRows, batchSizes>>
countVars == <<totalFetched, totalAtEntry>>
vars == <<buildVars, providerVars, cacheVars, enumVars, countVars>>

----------------------------------------------------------------------------
(* Bounds *)

\* the longest scope list passed to the builder
MaxScopes == 2

----------------------------------------------------------------------------
(* String literals of the source *)

\* L"SELECT System.ItemUrl FROM SystemIndex WHERE"
SelectFromWhere ==
    <<"S", "E", "L", "E", "C", "T", " ", "S", "y", "s", "t", "e", "m", ".", "I", "t", "e", "m", "U", "r", "l", " ", "F", "R", "O", "M", " ", "S", "y", "s", "t", "e", "m", "I", "n", "d", "e", "x", " ", "W", "H", "E", "R", "E">>
\* L" ("
OpenGroup == <<" ", "(">>
\* L" SCOPE='file:"
ScopeEq == <<" ", "S", "C", "O", "P", "E", "=", "'", "f", "i", "l", "e", ":">>
\* L'\''
Apostrophe == <<"'">>
\* L" OR"
OrConn == <<" ", "O", "R">>
\* L")"
CloseGroup == <<")">>
\* L" SCOPE <> 'file:"
ScopeNe == <<" ", "S", "C", "O", "P", "E", " ", "<", ">", " ", "'", "f", "i", "l", "e", ":">>
\* L" AND"
AndConn == <<" ", "A", "N", "D">>

\* the value of the wide character L'\'' when it is used as an integer
ApostropheCode == 39

----------------------------------------------------------------------------
(* Inputs *)

\* C:\Users\Alice\Documents
Documents ==
    <<"C", ":", "\\", "U", "s", "e", "r", "s", "\\", "A", "l", "i", "c", "e", "\\", "D", "o", "c", "u", "m", "e", "n", "t", "s">>
\* C:\Users\Alice\Documents\Projects\Budget\2025\Q1  (48 characters, longer than ApostropheCode)
Archive ==
    <<"C", ":", "\\", "U", "s", "e", "r", "s", "\\", "A", "l", "i", "c", "e", "\\", "D", "o", "c", "u", "m", "e", "n", "t", "s", "\\", "P", "r", "o", "j", "e", "c", "t", "s", "\\", "B", "u", "d", "g", "e", "t", "\\", "2", "0", "2", "5", "\\", "Q", "1">>
\* D:/Data  (already written with forward slashes)
DataDir == <<"D", ":", "/", "D", "a", "t", "a">>

Paths == {Documents, Archive, DataDir}

ScopeListsUpTo(n) == UNION {[1..k -> Paths] : k \in 0..n}

ScopeLists == ScopeListsUpTo(MaxScopes)

\* A read that starts past the end of a buffer is undefined: it faults, or it
\* returns whatever characters lie there up to the next NUL.
OobGarbage == {<<>>, <<"#">>}
OobOutcomes ==
    {[fault |-> TRUE, chars |-> <<>>]} \cup {[fault |-> FALSE, chars |-> g] : g \in OobGarbage}
InBounds == [fault |-> FALSE, chars |-> <<>>]

\* one outcome per excluded scope; a scope long enough to be read in bounds has none
OobFor(excluded) ==
    {o \in [1..Len(excluded) -> OobOutcomes] :
        \A i \in 1..Len(excluded) : ApostropheCode <= Len(excluded[i]) => o[i] = InBounds}

----------------------------------------------------------------------------
(* searchapi::internal::BuildPrimingSqlFromScopes *)

\* a replace that leaves the scope as it was written
ReplaceNothing(scope, old, new) == scope

\* a replace that stops after the first occurrence
ReplaceFirstOnly(scope, old, new) ==
    [i \in 1..Len(scope) |->
        IF scope[i] = old /\ (\A j \in 1..(i - 1) : scope[j] # old) THEN new ELSE scope[i]]

\* std::replace(scope.begin(), scope.end(), old, new)
Replace(scope, old, new) ==
    [i \in 1..Len(scope) |-> IF scope[i] = old THEN new ELSE scope[i]]

\* str.c_str() + offset, appended to a wstring: the characters from offset to the
\* terminating NUL; past the end of the buffer, the characters the read gave
CStrPlus(str, offset, oob) ==
    IF offset <= Len(str) THEN SubSeq(str, offset + 1, Len(str)) ELSE oob.chars

\* i < (includedScopes.size() - 1), evaluated inside the loop, where size() >= 1
MoreIncluded(i, included) == i < Len(included) - 1

\* the same test against the included list's size; size_t 0 - 1 wraps to SIZE_MAX
MoreExcludedByIncludedSize(i, included, excluded) ==
    Len(included) = 0 \/ i < Len(included) - 1

\* i < (excludedScopes.size() - 1), evaluated inside the loop, where size() >= 1
MoreExcluded(i, included, excluded) == i < Len(excluded) - 1

\* the scope as the inclusion loop embeds it
IncludedText(scope) == Replace(scope, "\\", "/")

\* the scope as the exclusion loop embeds it: excludedScopes[i].c_str() + L'\''
ExcludedText(scope, oob) == CStrPlus(scope, ApostropheCode, oob)

RECURSIVE IncludedLoop(_, _, _)
IncludedLoop(str, included, i) ==
    IF ~(i < Len(included)) THEN str
    ELSE LET scope == IncludedText(included[i + 1])
             s1 == IF i = 0 THEN str \o OpenGroup ELSE str
             s2 == s1 \o ScopeEq
             s3 == s2 \o scope \o Apostrophe
             s4 == IF MoreIncluded(i, included) THEN s3 \o OrConn ELSE s3 \o CloseGroup
         IN  IncludedLoop(s4, included, i + 1)

RECURSIVE ExcludedLoop(_, _, _, _, _)
ExcludedLoop(str, included, excluded, oob, i) ==
    IF ~(i < Len(excluded)) THEN str
    ELSE LET s1 == str \o ScopeNe
             s2 == s1 \o ExcludedText(excluded[i + 1], oob[i + 1])
             s3 == IF MoreExcluded(i, included, excluded) THEN s2 \o AndConn ELSE s2
         IN  ExcludedLoop(s3, included, excluded, oob, i + 1)

BuildPrimingSqlFromScopes(included, excluded, oob) ==
    ExcludedLoop(IncludedLoop(SelectFromWhere, included, 0), included, excluded, oob, 0)

\* the call faults when a read past the end of a buffer does
BuildFaults(excluded, oob) == \E i \in 1..Len(excluded) : oob[i].fault

----------------------------------------------------------------------------
(* The providers and the engine at construction *)

Providers == {"p1", "p2"}

\* an empty winrt::com_ptr<IRowset>
NullRowset == 0

NoOp ==
    [op |-> "none", provider |-> "none", text |-> <<>>, outcome |-> "none",
     calls |-> <<>>, failedAt |-> 0, submitted |-> <<>>, cursorRows |-> 0,
     result |-> <<>>]

\* FileSearchProvider() {} : both members default-constructed
ProviderInit ==
    /\ m_prefetchSql = [p \in Providers |-> <<>>]
    /\ m_prefetchRowset = [p \in Providers |-> NullRowset]
    /\ rowsets = <<>>
    /\ alive = TRUE
    /\ lastOp = NoOp
    /\ primed = [p \in Providers |-> [sql |-> <<>>, rowset |-> NullRowset, reprimed |-> FALSE]]

----------------------------------------------------------------------------
(* The service handles at process start *)

\* an empty winrt::com_ptr to a service interface
NullHandle == 0

Kinds == {"manager", "catalog", "crawlScope"}

NoGet == [getter |-> "none", outcome |-> "none", returned |-> NullHandle]

\* static winrt::com_ptr<...> s_cached...: all three empty
CacheStart ==
    /\ s_cachedManager = NullHandle
    /\ s_cachedSystemIndexCatalogManager = NullHandle
    /\ s_cachedSystemIndexCrawlScopeManager = NullHandle
    /\ created = [k \in Kinds |-> 0]
    /\ lastGet = NoGet

\* a build without SEARCHPLAT_API_CACHE in which no getter is called
CacheIdle == cacheObjects = FALSE /\ CacheStart

\* no enumeration has been started
EnumIdle ==
    /\ enumPc = "idle"
    /\ rowsInCursor = 0
    /\ cursorPos = 0
    /\ rowBuffer = <<>>
    /\ rowIndex = 0
    /\ callbackLog = <<>>
    /\ heldRows = {}
    /\ batchSizes = <<>>

\* an unsigned 64-bit integer is held as four 16-bit digits, the lowest first
LimbBase == 65536

\* size_t totalFetched{ 0 }
Zero64 == <<0, 0, 0, 0>>

CountIdle == totalFetched = Zero64 /\ totalAtEntry = Zero64

----------------------------------------------------------------------------
(* The builder on its own: every pair of scope lists within the bounds *)

BuildInit ==
    /\ includedScopes \in ScopeLists
    /\ excludedScopes \in ScopeLists
    /\ oobReads = <<>>
    /\ queryStr = <<>>
    /\ buildStatus = "input"

CallBuildPrimingSql ==
    /\ buildStatus = "input"
    /\ \E oob \in OobFor(excludedScopes) :
        /\ oobReads' = oob
        /\ IF BuildFaults(excludedScopes, oob)
           THEN buildStatus' = "fault" /\ queryStr' = queryStr
           ELSE /\ buildStatus' = "returned"
                /\ queryStr' = BuildPrimingSqlFromScopes(includedScopes, excludedScopes, oob)
    /\ UNCHANGED <<includedScopes, excludedScopes, providerVars, cacheVars, enumVars, countVars>>

NextBuildCall ==
    /\ buildStatus # "input"
    /\ includedScopes' \in ScopeLists
    /\ excludedScopes' \in ScopeLists
    /\ oobReads' = <<>>
    /\ queryStr' = <<>>
    /\ buildStatus' = "input"
    /\ UNCHANGED <<providerVars, cacheVars, enumVars, countVars>>

InitBuild == BuildInit /\ ProviderInit /\ CacheIdle /\ EnumIdle /\ CountIdle

NextBuild == CallBuildPrimingSql \/ NextBuildCall

SpecBuild == InitBuild /\ [][NextBuild]_vars
----------------------------------------------------------------------------
(* The engine boundary: searchapi::ExecuteQuery and GetReuseWhereIDFromRowset *)

\* the most rows a cursor holds
MaxRows == 1

\* reuse tokens the engine hands out (DWORD values within TLC's integers)
Tokens == {0, 2147483647}

\* the engine calls of ExecuteQuery, in program order; each may fail
ExecuteCalls ==
    <<"CoCreateInstance", "Initialize", "as<IDBCreateSession>", "CreateSession",
      "as<IDBCreateCommand>", "CreateCommand", "as<ICommandText>", "SetCommandText",
      "Execute", "as<IRowset>">>

\* the engine calls of GetReuseWhereIDFromRowset, in program order
ReuseWhereCalls == <<"QueryInterface(IRowsetInfo)", "GetProperties">>

\* failAt = 0: every call succeeds; failAt = k: call k fails and THROW_IF_FAILED throws
FailPoints(callList) == 0..Len(callList)

\* a THROW_IF_FAILED that lets the function run on
CallsAll(callList, failAt) == callList

\* the calls made before the function returns or throws
CallsMade(callList, failAt) ==
    IF failAt = 0 THEN callList ELSE SubSeq(callList, 1, failAt)

\* ExecuteQuery(sql) returns a cursor iff no call failed
ExecuteSucceeds(failAt) == failAt = 0

\* a dereference of an empty com_ptr or a faulting read: the process is terminated,
\* or the access violation reaches the caller as a structured exception
FaultOutcomes == {"crash", "fault"}

\* std::to_wstring(unsigned long)
Digits == <<"0", "1", "2", "3", "4", "5", "6", "7", "8", "9">>

RECURSIVE ToWString(_)
ToWString(n) ==
    IF n < 10 THEN <<Digits[n + 1]>>
    ELSE ToWString(n \div 10) \o <<Digits[(n % 10) + 1]>>

\* L" AND CONTAINS('"
AndContains == <<" ", "A", "N", "D", " ", "C", "O", "N", "T", "A", "I", "N", "S", "(", "'">>
\* L"') AND REUSEWHERE("
AndReuseWhere ==
    <<"'", ")", " ", "A", "N", "D", " ", "R", "E", "U", "S", "E", "W", "H", "E", "R", "E", "(">>
\* L")"
CloseParen == <<")">>

\* querySql of ExecuteQueryUsingPrimingQuery
QuerySql(prefetchSql, searchText, reuseWhereId) ==
    prefetchSql \o AndContains \o searchText \o AndReuseWhere
        \o ToWString(reuseWhereId) \o CloseParen

----------------------------------------------------------------------------
(* Inputs of the provider's calls *)

\* L"Foo"
TextFoo == <<"F", "o", "o">>
\* L"it's"
TextQuote == <<"i", "t", "'", "s">>

SearchTexts == {TextFoo, TextQuote}

\* the scope sets callers prepare with
PrepareArgs ==
    { [included |-> <<Documents, DataDir>>, excluded |-> <<>>],
      [included |-> <<>>, excluded |-> <<>>],
      [included |-> <<DataDir>>, excluded |-> <<Documents>>] }

----------------------------------------------------------------------------
(* FileSearchProvider *)

\* how the engine behaves during one ExecuteQuery: the call that fails (0: none) and,
\* when none does, the cursor it returns
ExecuteRuns ==
    {[failAt |-> k, whereId |-> 0, rows |-> 0] : k \in 1..Len(ExecuteCalls)}
        \cup {[failAt |-> 0, whereId |-> t, rows |-> r] : t \in Tokens, r \in 0..MaxRows}

\* how the engine behaves during one ExecuteQueryUsingPrimingQuery
ReuseRuns ==
    {[tokenFailAt |-> k, failAt |-> 0, rows |-> 0] : k \in 1..Len(ReuseWhereCalls)}
        \cup {[tokenFailAt |-> 0, failAt |-> k, rows |-> 0] : k \in 1..Len(ExecuteCalls)}
        \cup {[tokenFailAt |-> 0, failAt |-> 0, rows |-> r] : r \in 0..MaxRows}

\* an engine that hands out one address again and again
FirstRowsetId(cursors) == 1

\* the address of a new COM object: one no live cursor has
NewRowsetId(cursors) ==
    CHOOSE id \in 1..(Cardinality(DOMAIN cursors) + 1) : id \notin DOMAIN cursors

\* failedAt: the position in `calls` of the engine call that failed (0: none)
Op(name, p, text, outcome, calls, failedAt, submitted, cursorRows, result) ==
    [op |-> name, provider |-> p, text |-> text, outcome |-> outcome, calls |-> calls,
     failedAt |-> failedAt, submitted |-> submitted, cursorRows |-> cursorRows,
     result |-> result]

\* a com_ptr that keeps its cursor
ReleaseNothing(cursors, old) == cursors

\* the engine's cursors once ExecuteQuery has returned a new one at address id
Opened(cursors, id, cursor) == cursors @@ (id :> cursor)

\* the engine's cursors once a com_ptr lets go of `old`
Release(cursors, old) == [id \in (DOMAIN cursors) \ {old} |-> cursors[id]]

\* a fault: the process ends, or the access violation reaches the caller
Fault(name, p, text, how) ==
    /\ alive' = (how = "fault")
    /\ lastOp' = Op(name, p, text, how, <<>>, 0, <<>>, 0, <<>>)
    /\ UNCHANGED <<m_prefetchSql, m_prefetchRowset, rowsets, primed>>

\* m_prefetchSql = BuildPrimingSqlFromScopes(...), assigned before ExecuteQuery runs
PrepareStores(p, built) == [m_prefetchSql EXCEPT ![p] = built]

PrepareForSearch(p, args, oob, run, how) ==
    /\ alive
    /\ IF BuildFaults(args.excluded, oob)
       THEN Fault("PrepareForSearch", p, <<>>, how)
       ELSE LET built == BuildPrimingSqlFromScopes(args.included, args.excluded, oob)
                ok == ExecuteSucceeds(run.failAt)
                calls == CallsMade(ExecuteCalls, run.failAt)
                id == NewRowsetId(rowsets)
            IN  /\ m_prefetchSql' = PrepareStores(p, built)
                /\ IF ok
                   THEN /\ m_prefetchRowset' = [m_prefetchRowset EXCEPT ![p] = id]
                        /\ rowsets' = Release(Opened(rowsets, id,
                                                     [whereId |-> run.whereId, rows |-> run.rows]),
                                              m_prefetchRowset[p])
                        /\ primed' = [primed EXCEPT ![p] =
                              [sql |-> built, rowset |-> id,
                               reprimed |-> m_prefetchRowset[p] # NullRowset]]
                        /\ lastOp' = Op("PrepareForSearch", p, <<>>, "ok", calls, 0, <<built>>,
                                        run.rows, <<>>)
                   ELSE /\ UNCHANGED <<m_prefetchRowset, rowsets, primed>>
                        /\ lastOp' = Op("PrepareForSearch", p, <<>>, "EngineFailure", calls,
                                        run.failAt, <<built>>, 0, <<>>)
                /\ alive' = alive
    /\ UNCHANGED <<buildVars, cacheVars, enumVars, countVars>>

\* the vector Search and SearchWithOptions return for a cursor of `rows` rows
SearchResult(rows) == <<>>

\* an ExecuteQueryUsingPrimingQuery that runs the priming text again
ExecutedStaleSql(querySql, prefetchSql) == prefetchSql

\* the text ExecuteQueryUsingPrimingQuery hands to ExecuteQuery
ExecutedSql(querySql, prefetchSql) == querySql

\* Search and SearchWithOptions: ExecuteQueryUsingPrimingQuery, then the return; the
\* cursor of the reuse query is a local and is released on return
SearchCall(name, p, searchText, run, how) ==
    /\ alive
    /\ IF m_prefetchRowset[p] = NullRowset
       THEN Fault(name, p, searchText, how)
       ELSE LET tokenCalls == CallsMade(ReuseWhereCalls, run.tokenFailAt)
                reuseWhereId == rowsets[m_prefetchRowset[p]].whereId
                querySql == QuerySql(m_prefetchSql[p], searchText, reuseWhereId)
                sent == ExecutedSql(querySql, m_prefetchSql[p])
                calls == tokenCalls \o CallsMade(ExecuteCalls, run.failAt)
                id == NewRowsetId(rowsets)
                found == [whereId |-> 0, rows |-> run.rows]
            IN  /\ UNCHANGED <<m_prefetchSql, m_prefetchRowset, primed, alive>>
                /\ IF run.tokenFailAt # 0
                   THEN /\ lastOp' = Op(name, p, searchText, "EngineFailure", tokenCalls,
                                        run.tokenFailAt, <<>>, 0, <<>>)
                        /\ UNCHANGED rowsets
                   ELSE IF ~ExecuteSucceeds(run.failAt)
                   THEN /\ lastOp' = Op(name, p, searchText, "EngineFailure", calls,
                                        Len(tokenCalls) + run.failAt, <<sent>>, 0, <<>>)
                        /\ UNCHANGED rowsets
                   ELSE /\ lastOp' = Op(name, p, searchText, "ok", calls, 0, <<sent>>,
                                        run.rows, SearchResult(run.rows))
                        /\ rowsets' = Release(Opened(rowsets, id, found), id)
    /\ UNCHANGED <<buildVars, cacheVars, enumVars, countVars>>

\* std::wstring sql(L"SELECT System.ItemUrl FROM SystemIndex WHERE SCOPE='file:'")
TotalFilesSql == SelectFromWhere \o ScopeEq \o Apostrophe

\* ARRAYSIZE(rowBuffer)
RowBufferSize == 1000

\* the row counts GetNextRows hands out on a cursor of `rows` rows: buffers, then none
RECURSIVE Batches(_)
Batches(rows) ==
    IF rows = 0 THEN <<0>>
    ELSE LET n == IF rows < RowBufferSize THEN rows ELSE RowBufferSize
         IN  <<n>> \o Batches(rows - n)

\* the calls of the do-while of GetTotalFilesInIndex, one round per batch
RECURSIVE FetchCalls(_)
FetchCalls(batches) ==
    IF batches = <<>> THEN <<>>
    ELSE <<"GetNextRows", "ULongLongAdd", "ReleaseRows">> \o FetchCalls(Tail(batches))

\* totalFetched after every round
RECURSIVE TotalFetched(_)
TotalFetched(batches) ==
    IF batches = <<>> THEN 0 ELSE Head(batches) + TotalFetched(Tail(batches))

\* the engine calls of GetTotalFilesInIndex on an index of `rows` files
CountCalls(rows) == ExecuteCalls \o <<"as<IGetRow>">> \o FetchCalls(Batches(rows))

\* how the engine behaves during one GetTotalFilesInIndex
CountRuns ==
    {[failAt |-> k, rows |-> 0] : k \in 1..Len(ExecuteCalls)}
        \cup {[failAt |-> k, rows |-> r] :
                 r \in 0..MaxRows, k \in {0} \cup (Len(ExecuteCalls) + 1)..Len(CountCalls(MaxRows))}

\* rowset is a local: the cursor of the count query is released on return and on throw
GetTotalFilesInIndex(p, run) ==
    /\ alive
    /\ run.failAt <= Len(CountCalls(run.rows))
    /\ LET calls == CallsMade(CountCalls(run.rows), run.failAt)
           id == NewRowsetId(rowsets)
           opened == run.failAt = 0 \/ run.failAt > Len(ExecuteCalls)
           counted == [whereId |-> 0, rows |-> run.rows]
       IN  /\ rowsets' = IF opened THEN Release(Opened(rowsets, id, counted), id)
                         ELSE rowsets
           /\ lastOp' =
                 IF run.failAt = 0
                 THEN Op("GetTotalFilesInIndex", p, <<>>, "ok", calls, 0, <<TotalFilesSql>>,
                         run.rows, <<TotalFetched(Batches(run.rows))>>)
                 ELSE Op("GetTotalFilesInIndex", p, <<>>, "EngineFailure", calls,
                         run.failAt, <<TotalFilesSql>>, 0, <<>>)
           /\ UNCHANGED <<m_prefetchSql, m_prefetchRowset, primed, alive>>
    /\ UNCHANGED <<buildVars, cacheVars, enumVars, countVars>>

BuildIdle ==
    /\ includedScopes = <<>>
    /\ excludedScopes = <<>>
    /\ oobReads = <<>>
    /\ queryStr = <<>>
    /\ buildStatus = "input"

Init == BuildIdle /\ ProviderInit /\ CacheIdle /\ EnumIdle /\ CountIdle

\* the providers the caller of this run uses
ActiveProviders == {"p1"}

\* a fault outcome is chosen only where the call faults
HowFor(faults) == IF faults THEN FaultOutcomes ELSE {"crash"}

Prepare ==
    \E p \in ActiveProviders, args \in PrepareArgs :
        \E oob \in OobFor(args.excluded) :
            \E run \in IF BuildFaults(args.excluded, oob)
                       THEN {CHOOSE r \in ExecuteRuns : TRUE} ELSE ExecuteRuns,
               how \in HowFor(BuildFaults(args.excluded, oob)) :
                PrepareForSearch(p, args, oob, run, how)

Search ==
    \E p \in ActiveProviders, searchText \in SearchTexts :
        \E run \in IF m_prefetchRowset[p] = NullRowset
                   THEN {CHOOSE r \in ReuseRuns : TRUE} ELSE ReuseRuns,
           how \in HowFor(m_prefetchRowset[p] = NullRowset) :
            SearchCall("Search", p, searchText, run, how)

SearchWithOptions ==
    \E p \in ActiveProviders, searchText \in SearchTexts :
        \E run \in IF m_prefetchRowset[p] = NullRowset
                   THEN {CHOOSE r \in ReuseRuns : TRUE} ELSE ReuseRuns,
           how \in HowFor(m_prefetchRowset[p] = NullRowset) :
            SearchCall("SearchWithOptions", p, searchText, run, how)

Count == \E p \in ActiveProviders, run \in CountRuns : GetTotalFilesInIndex(p, run)

Next == Prepare \/ Search \/ SearchWithOptions \/ Count

Spec == Init /\ [][Next]_vars

----------------------------------------------------------------------------
(* Two FileSearchProvider instances in one process *)

\* the scope sets the two providers prepare with
TwoArgs == {args \in PrepareArgs : args.excluded = <<>>}

\* the engine succeeds, or fails at the first or the last call of ExecuteQuery
TwoExecuteRuns ==
    {run \in ExecuteRuns :
        run.failAt \in {0, 1, Len(ExecuteCalls)} /\ run.whereId = 0 /\ run.rows = 0}

TwoReuseRuns ==
    {run \in ReuseRuns :
        run.tokenFailAt \in {0, 1} /\ run.failAt \in {0, Len(ExecuteCalls)} /\ run.rows = 0}

PrepareEither ==
    \E p \in Providers, args \in TwoArgs, run \in TwoExecuteRuns :
        PrepareForSearch(p, args, <<>>, run, "crash")

SearchEither ==
    \E p \in Providers :
        \E run \in IF m_prefetchRowset[p] = NullRowset
                   THEN {CHOOSE r \in TwoReuseRuns : TRUE} ELSE TwoReuseRuns,
           how \in HowFor(m_prefetchRowset[p] = NullRowset) :
            SearchCall("Search", p, TextFoo, run, how)

NextTwo == PrepareEither \/ SearchEither

SpecTwo == Init /\ [][NextTwo]_vars

----------------------------------------------------------------------------
(* What the builder's contract says, stated without the builder *)

RECURSIVE Normalized(_)
Normalized(path) ==
    IF path = <<>> THEN <<>>
    ELSE <<IF Head(path) = "\\" THEN "/" ELSE Head(path)>> \o Normalized(Tail(path))

RECURSIVE JoinWith(_, _)
JoinWith(terms, connective) ==
    IF terms = <<>> THEN <<>>
    ELSE IF Len(terms) = 1 THEN terms[1]
    ELSE terms[1] \o connective \o JoinWith(Tail(terms), connective)

IsPrefix(pre, str) == Len(pre) <= Len(str) /\ SubSeq(str, 1, Len(pre)) = pre

EndsWith(str, suf) ==
    Len(suf) <= Len(str) /\ SubSeq(str, Len(str) - Len(suf) + 1, Len(str)) = suf

Contains(str, sub) ==
    \E k \in 0..(Len(str) - Len(sub)) : SubSeq(str, k + 1, k + Len(sub)) = sub

InclusionGroup(included) ==
    OpenGroup
    \o JoinWith([i \in 1..Len(included) |-> ScopeEq \o Normalized(included[i]) \o Apostrophe], OrConn)
    \o CloseGroup

Returned == buildStatus = "returned"

\* C5: for a non-empty included list and an empty excluded list the builder returns
\* exactly SELECT System.ItemUrl FROM SystemIndex WHERE ( SCOPE='file:<s0>' OR ... OR
\* SCOPE='file:<sn>') with every backslash of a scope turned into a forward slash, the
\* scopes in input order, one OR between consecutive terms and the group closed once.
C5_InclusionOnlyOutput ==
    (Returned /\ includedScopes # <<>> /\ excludedScopes = <<>>)
        => queryStr = SelectFromWhere \o InclusionGroup(includedScopes)

C5_Witness ==
    /\ Returned
    /\ includedScopes = <<Documents, DataDir>>
    /\ excludedScopes = <<>>

\* C6: with both lists non-empty the output is the inclusion group, then one AND, then
\* the chain of exclusion terms.
C6_AndJoinsGroupAndChain ==
    (Returned /\ includedScopes # <<>> /\ excludedScopes # <<>>)
        => IsPrefix(SelectFromWhere \o InclusionGroup(includedScopes) \o AndConn \o ScopeNe,
                    queryStr)

\* C7: with an empty included list and excluded scopes e0..em the output has no
\* inclusion group and no leading AND: WHERE is followed by the exclusion terms in input
\* order, with one AND between consecutive terms and none after the last.  A term is
\* SCOPE <> 'file: followed by the text the builder embedded for that scope.
C7_ExclusionOnlyOutput ==
    (Returned /\ includedScopes = <<>> /\ excludedScopes # <<>>)
        => queryStr = SelectFromWhere
                \o JoinWith([i \in 1..Len(excludedScopes) |->
                                ScopeNe \o ExcludedText(excludedScopes[i], oobReads[i])],
                            AndConn)

C7_Witness ==
    /\ Returned
    /\ includedScopes = <<>>
    /\ excludedScopes = <<Archive, Documents>>

\* C8: with both lists empty the builder returns the unconditional projection query:
\* no scope predicate and no WHERE left dangling at the end.
C8_UnconditionalWhenBothEmpty ==
    (Returned /\ includedScopes = <<>> /\ excludedScopes = <<>>)
        => /\ ~Contains(queryStr, <<"S", "C", "O", "P", "E">>)
           /\ ~EndsWith(queryStr, <<"W", "H", "E", "R", "E">>)

\* C9: every excluded scope is in the output in its normalized form, after
\* SCOPE <> 'file: and closed by a single quote, and a scope written with backslashes
\* never appears as it was written.
C9_ExcludedScopesNormalized ==
    Returned =>
        \A i \in 1..Len(excludedScopes) :
            /\ Contains(queryStr, ScopeNe \o Normalized(excludedScopes[i]) \o Apostrophe)
            /\ excludedScopes[i] # Normalized(excludedScopes[i])
                  => ~Contains(queryStr, excludedScopes[i])

----------------------------------------------------------------------------
(* The provider's contract *)

SearchOps == {"Search", "SearchWithOptions"}

Searched == lastOp.op \in SearchOps

\* no PrepareForSearch has succeeded on the provider
NeverPrimed(p) == primed[p].rowset = NullRowset

RECURSIVE DecimalValue(_)
DecimalValue(digits) ==
    IF digits = <<>> THEN 0
    ELSE 10 * DecimalValue(SubSeq(digits, 1, Len(digits) - 1))
            + (CHOOSE v \in 0..9 : Digits[v + 1] = digits[Len(digits)])

\* str is the decimal numeral of n: digits only, no leading zero
IsDecimalOf(str, n) ==
    /\ Len(str) >= 1
    /\ \A i \in 1..Len(str) : \E v \in 0..9 : Digits[v + 1] = str[i]
    /\ Len(str) > 1 => str[1] # "0"
    /\ DecimalValue(str) = n

\* str is <base> AND CONTAINS('<text>') AND REUSEWHERE(<token>)
IsReuseQuery(str, base, text, token) ==
    LET head == base \o <<" ", "A", "N", "D", " ", "C", "O", "N", "T", "A", "I", "N", "S", "(", "'">>
                     \o text
                     \o <<"'", ")", " ", "A", "N", "D", " ", "R", "E", "U", "S", "E", "W", "H", "E", "R", "E", "(">>
    IN  /\ IsPrefix(head, str)
        /\ Len(str) >= Len(head) + 2
        /\ str[Len(str)] = ")"
        /\ IsDecimalOf(SubSeq(str, Len(head) + 1, Len(str) - 1), token)

\* C1: a PrepareForSearch that fails in the engine leaves the provider's stored base
\* query text and its stored priming cursor exactly as they were before the call.
C1_FailedPrepareLeavesSession ==
    [][(lastOp'.op = "PrepareForSearch" /\ lastOp'.outcome = "EngineFailure")
          => (m_prefetchSql' = m_prefetchSql /\ m_prefetchRowset' = m_prefetchRowset)]_vars

\* C2: Search or SearchWithOptions on a provider on which no PrepareForSearch has ever
\* succeeded fails with NotPrimed and sends no query to the engine.
C2_SearchUnpreparedIsNotPrimed ==
    (Searched /\ NeverPrimed(lastOp.provider))
        => (lastOp.outcome = "NotPrimed" /\ lastOp.submitted = <<>> /\ lastOp.calls = <<>>)

\* C3: a search on a Ready provider hands the executor exactly
\* <BaseQuery> AND CONTAINS('<searchText>') AND REUSEWHERE(<token>): the stored base
\* query, the text unescaped, the token the decimal numeral of the stored priming
\* cursor's reuse token; whenever the reuse token was read, that string and no other is
\* what is executed.
C3_SearchSubmitsReuseQuery ==
    (Searched /\ lastOp.outcome \in {"ok", "EngineFailure"})
        => LET p == lastOp.provider
               tokenRead == Len(lastOp.calls) > Len(ReuseWhereCalls)
                              \/ lastOp.outcome = "ok"
           IN  /\ tokenRead <=> Len(lastOp.submitted) = 1
               /\ lastOp.submitted = <<>> \/ Len(lastOp.submitted) = 1
               /\ Len(lastOp.submitted) = 1
                    => IsReuseQuery(lastOp.submitted[1], m_prefetchSql[p], lastOp.text,
                                    rowsets[m_prefetchRowset[p]].whereId)

C3_Witness ==
    /\ lastOp.op = "Search"
    /\ lastOp.outcome = "ok"
    /\ lastOp.text = TextQuote
    /\ m_prefetchSql[lastOp.provider]
          = BuildPrimingSqlFromScopes(<<Documents, DataDir>>, <<>>, <<>>)
    /\ rowsets[m_prefetchRowset[lastOp.provider]].whereId = 2147483647

\* C4: once a PrepareForSearch has succeeded on a Ready provider, every later search
\* uses the base query of the newest successful prepare and the reuse token of the
\* newest priming cursor.
C4_SearchUsesNewestSession ==
    (Searched /\ primed[lastOp.provider].reprimed /\ Len(lastOp.submitted) = 1)
        => LET s == primed[lastOp.provider]
           IN  IsReuseQuery(lastOp.submitted[1], s.sql, lastOp.text, rowsets[s.rowset].whereId)

\* C10: on a Ready provider a search that succeeds returns one result record per row
\* of the executed reuse query's cursor, in cursor order.
C10_SearchReturnsEveryRow ==
    (Searched /\ lastOp.outcome = "ok")
        => lastOp.result = [i \in 1..lastOp.cursorRows |-> i]

----------------------------------------------------------------------------
(* GetSearchManager, GetSystemIndexCatalogManager, GetSystemIndexCrawlScopeManager *)

\* the most handles of one kind the service creates in one run
MaxHandles == 3

GetterRunning == lastGet.outcome # "crash"

\* a cached getter that creates a handle on every call
TestIgnored(cached) == TRUE

\* if (!s_cached....get())
IsEmpty(cached) == cached = NullHandle

\* the service creates a handle of kind k: its number among the handles of that kind
Create(k) == [created EXCEPT ![k] = @ + 1]

Got(name, outcome, handle) == [getter |-> name, outcome |-> outcome, returned |-> handle]

\* a call through an empty com_ptr: the process ends, or the access violation reaches
\* the caller
GetterFault(name, how) ==
    /\ lastGet' = Got(name, how, NullHandle)
    /\ UNCHANGED <<s_cachedManager, s_cachedSystemIndexCatalogManager,
                   s_cachedSystemIndexCrawlScopeManager, created>>

\* failAt: the service call of this getter that fails (0: none)
GetSearchManager(failAt) ==
    /\ GetterRunning
    /\ UNCHANGED <<cacheObjects, s_cachedSystemIndexCatalogManager,
                   s_cachedSystemIndexCrawlScopeManager>>
    /\ IF cacheObjects
       THEN IF IsEmpty(s_cachedManager)
            THEN IF failAt # 0
                 THEN /\ lastGet' = Got("GetSearchManager", "failure", NullHandle)
                      /\ UNCHANGED <<s_cachedManager, created>>
                 ELSE /\ created["manager"] < MaxHandles
                      /\ created' = Create("manager")
                      /\ s_cachedManager' = created'["manager"]
                      /\ lastGet' = Got("GetSearchManager", "ok", s_cachedManager')
            ELSE /\ lastGet' = Got("GetSearchManager", "ok", s_cachedManager)
                 /\ UNCHANGED <<s_cachedManager, created>>
       ELSE /\ UNCHANGED s_cachedManager
            /\ IF failAt # 0
               THEN /\ lastGet' = Got("GetSearchManager", "failure", NullHandle)
                    /\ UNCHANGED created
               ELSE /\ created["manager"] < MaxHandles
                    /\ created' = Create("manager")
                    /\ lastGet' = Got("GetSearchManager", "ok", created'["manager"])
    /\ UNCHANGED <<buildVars, providerVars, enumVars, countVars>>

\* the handles the uncached getters create on the way: the first `depth` kinds, up to
\* the call that fails
UncachedCreates(depth, failAt) ==
    LET order == <<"manager", "catalog", "crawlScope">>
        made == IF failAt = 0 THEN depth ELSE failAt - 1
    IN  [k \in Kinds |-> IF \E i \in 1..made : order[i] = k THEN created[k] + 1 ELSE created[k]]

GetSystemIndexCatalogManager(failAt, how) ==
    /\ GetterRunning
    /\ UNCHANGED <<cacheObjects, s_cachedManager, s_cachedSystemIndexCrawlScopeManager>>
    /\ IF cacheObjects
       THEN IF IsEmpty(s_cachedSystemIndexCatalogManager)
            THEN IF s_cachedManager = NullHandle
                 THEN /\ GetterFault("GetSystemIndexCatalogManager", how)
                 ELSE IF failAt # 0
                 THEN /\ lastGet' = Got("GetSystemIndexCatalogManager", "failure", NullHandle)
                      /\ UNCHANGED <<s_cachedSystemIndexCatalogManager, created>>
                 ELSE /\ created["catalog"] < MaxHandles
                      /\ created' = Create("catalog")
                      /\ s_cachedSystemIndexCatalogManager' = created'["catalog"]
                      /\ lastGet' = Got("GetSystemIndexCatalogManager", "ok",
                                        s_cachedSystemIndexCatalogManager')
            ELSE /\ lastGet' = Got("GetSystemIndexCatalogManager", "ok",
                                   s_cachedSystemIndexCatalogManager)
                 /\ UNCHANGED <<s_cachedSystemIndexCatalogManager, created>>
       ELSE /\ UNCHANGED s_cachedSystemIndexCatalogManager
            /\ failAt \in 0..2
            /\ \A k \in {"manager", "catalog"} : created[k] < MaxHandles
            /\ created' = UncachedCreates(2, failAt)
            /\ lastGet' = IF failAt # 0
                          THEN Got("GetSystemIndexCatalogManager", "failure", NullHandle)
                          ELSE Got("GetSystemIndexCatalogManager", "ok", created'["catalog"])
    /\ UNCHANGED <<buildVars, providerVars, enumVars, countVars>>

GetSystemIndexCrawlScopeManager(failAt, how) ==
    /\ GetterRunning
    /\ UNCHANGED <<cacheObjects, s_cachedManager, s_cachedSystemIndexCatalogManager>>
    /\ IF cacheObjects
       THEN IF IsEmpty(s_cachedSystemIndexCrawlScopeManager)
            THEN IF s_cachedSystemIndexCatalogManager = NullHandle
                 THEN /\ GetterFault("GetSystemIndexCrawlScopeManager", how)
                 ELSE IF failAt # 0
                 THEN /\ lastGet' = Got("GetSystemIndexCrawlScopeManager", "failure", NullHandle)
                      /\ UNCHANGED <<s_cachedSystemIndexCrawlScopeManager, created>>
                 ELSE /\ created["crawlScope"] < MaxHandles
                      /\ created' = Create("crawlScope")
                      /\ s_cachedSystemIndexCrawlScopeManager' = created'["crawlScope"]
                      /\ lastGet' = Got("GetSystemIndexCrawlScopeManager", "ok",
                                        s_cachedSystemIndexCrawlScopeManager')
            ELSE /\ lastGet' = Got("GetSystemIndexCrawlScopeManager", "ok",
                                   s_cachedSystemIndexCrawlScopeManager)
                 /\ UNCHANGED <<s_cachedSystemIndexCrawlScopeManager, created>>
       ELSE /\ UNCHANGED s_cachedSystemIndexCrawlScopeManager
            /\ failAt \in 0..3
            /\ \A k \in Kinds : created[k] < MaxHandles
            /\ created' = UncachedCreates(3, failAt)
            /\ lastGet' = IF failAt # 0
                          THEN Got("GetSystemIndexCrawlScopeManager", "failure", NullHandle)
                          ELSE Got("GetSystemIndexCrawlScopeManager", "ok", created'["crawlScope"])
    /\ UNCHANGED <<buildVars, providerVars, enumVars, countVars>>

\* either build of the header, before any getter is called
InitCache ==
    BuildIdle /\ ProviderInit /\ cacheObjects \in BOOLEAN /\ CacheStart /\ EnumIdle /\ CountIdle

CallGetSearchManager == \E failAt \in 0..1 : GetSearchManager(failAt)

CallGetSystemIndexCatalogManager ==
    \E failAt \in 0..2, how \in FaultOutcomes : GetSystemIndexCatalogManager(failAt, how)

CallGetSystemIndexCrawlScopeManager ==
    \E failAt \in 0..3, how \in FaultOutcomes : GetSystemIndexCrawlScopeManager(failAt, how)

NextCache ==
    \/ CallGetSearchManager
    \/ CallGetSystemIndexCatalogManager
    \/ CallGetSystemIndexCrawlScopeManager

SpecCache == InitCache /\ [][NextCache]_vars

----------------------------------------------------------------------------
(* The service handles' contract *)

KindOf(getter) ==
    CASE getter = "GetSearchManager" -> "manager"
      [] getter = "GetSystemIndexCatalogManager" -> "catalog"
      [] getter = "GetSystemIndexCrawlScopeManager" -> "crawlScope"

CachedHandle(k) ==
    CASE k = "manager" -> s_cachedManager
      [] k = "catalog" -> s_cachedSystemIndexCatalogManager
      [] k = "crawlScope" -> s_cachedSystemIndexCrawlScopeManager

\* C11: with CACHE_OBJECTS = 1 each of the three handles is created at most once and
\* every getter call that returns gives that one handle; with caching disabled the
\* cached variables are never written and every call that returns has created a fresh
\* handle of its kind.
C11_CachedOnceUncachedFresh ==
    /\ [](cacheObjects =>
            \A k \in Kinds :
                /\ created[k] <= 1
                /\ CachedHandle(k) = created[k]
                /\ (lastGet.outcome = "ok" /\ KindOf(lastGet.getter) = k)
                      => (lastGet.returned = 1 /\ created[k] = 1))
    /\ [](~cacheObjects => \A k \in Kinds : CachedHandle(k) = NullHandle)
    /\ [][(~cacheObjects /\ lastGet'.outcome = "ok")
            => LET k == KindOf(lastGet'.getter)
               IN  created'[k] = created[k] + 1 /\ lastGet'.returned = created'[k]]_vars

C11_WitnessCached ==
    /\ cacheObjects
    /\ \A k \in Kinds : created[k] = 1
    /\ lastGet = Got("GetSearchManager", "ok", 1)

\* C12: with caching enabled and the service available, each getter returns a non-null
\* handle from every cache state and in every call order.
C12_CachedGettersReturnHandle ==
    (cacheObjects /\ lastGet.getter # "none" /\ lastGet.outcome # "failure")
        => (lastGet.outcome = "ok" /\ lastGet.returned # NullHandle)

----------------------------------------------------------------------------
(* The provider's frame conditions *)

\* C13: GetTotalFilesInIndex can be called whether the provider is Unprepared or Ready,
\* submits its own unscoped text, ends with a count or an engine failure, and in both
\* cases leaves m_prefetchSql, m_prefetchRowset and the engine's live cursors unchanged.
C13_CountLeavesSession ==
    /\ [](alive => ENABLED Count)
    /\ [](lastOp.op = "GetTotalFilesInIndex"
            => /\ lastOp.outcome \in {"ok", "EngineFailure"}
               /\ lastOp.submitted = <<TotalFilesSql>>)
    /\ [][lastOp'.op = "GetTotalFilesInIndex"
            => UNCHANGED <<m_prefetchSql, m_prefetchRowset, rowsets, alive>>]_vars

C13_Witness ==
    /\ lastOp.op = "GetTotalFilesInIndex"
    /\ lastOp.outcome = "ok"
    /\ lastOp.result = <<1>>
    /\ m_prefetchRowset["p1"] # NullRowset
    /\ m_prefetchRowset["p1"] \in DOMAIN rowsets

C15_OneSessionPerProvider ==
    /\ [](DOMAIN rowsets = {m_prefetchRowset[p] : p \in Providers} \ {NullRowset})
    /\ [](\A p, q \in Providers :
            (p # q /\ m_prefetchRowset[p] # NullRowset)
                => m_prefetchRowset[p] # m_prefetchRowset[q])
    /\ [][\A q \in Providers \ {lastOp'.provider} :
            /\ m_prefetchSql'[q] = m_prefetchSql[q]
            /\ m_prefetchRowset'[q] = m_prefetchRowset[q]
            /\ m_prefetchRowset[q] # NullRowset
                  => /\ m_prefetchRowset[q] \in DOMAIN rowsets'
                     /\ rowsets'[m_prefetchRowset[q]] = rowsets[m_prefetchRowset[q]]]_vars

C15_Witness ==
    /\ lastOp.op = "PrepareForSearch"
    /\ lastOp.provider = "p2"
    /\ lastOp.outcome = "ok"
    /\ primed["p2"].reprimed
    /\ m_prefetchRowset["p1"] # NullRowset
    /\ m_prefetchRowset["p2"] # NullRowset
    /\ Cardinality(DOMAIN rowsets) = 2

----------------------------------------------------------------------------
(* Failure propagation *)

\* the engine calls of an operation when none fails
FullCalls(op) ==
    IF op = "PrepareForSearch" THEN ExecuteCalls ELSE ReuseWhereCalls \o ExecuteCalls

\* C16: when an engine call of a prepare or a search fails, that call is the last engine
\* call of the operation and the operation reports the failure; the calls made are an
\* initial part of the operation's own call sequence (none repeated, none added), so
\* there is no retry, and at most one query text is handed to the engine, so there is
\* no fallback query.
C16_FailureEndsOperation ==
    (lastOp.op \in SearchOps \cup {"PrepareForSearch"} /\ lastOp.outcome \notin FaultOutcomes)
        => /\ IsPrefix(lastOp.calls, FullCalls(lastOp.op))
           /\ Len(lastOp.submitted) <= 1
           /\ lastOp.failedAt # 0
                 => /\ lastOp.failedAt = Len(lastOp.calls)
                    /\ lastOp.outcome = "EngineFailure"
                    /\ lastOp.result = <<>>
           /\ lastOp.failedAt = 0 => (lastOp.outcome = "ok" /\ lastOp.calls = FullCalls(lastOp.op))

C16_Witness ==
    /\ lastOp.op = "Search"
    /\ lastOp.outcome = "EngineFailure"
    /\ lastOp.failedAt = Len(ReuseWhereCalls) + 9
    /\ lastOp.calls[lastOp.failedAt] = "Execute"
    /\ Len(lastOp.submitted) = 1

----------------------------------------------------------------------------
(* Scope normalization *)

HasBackslash(path) == \E j \in 1..Len(path) : path[j] = "\\"

NormalizedList(scopes) == [i \in 1..Len(scopes) |-> IncludedText(scopes[i])]

\* C17: the normalization the inclusion loop applies changes nothing but backslashes
\* and is idempotent: the result has no backslash, has every other character where it
\* was, equals the path when the path has no backslash, and is unchanged by a second
\* application; so the builder returns for the already-normalized included scopes what
\* it returns for the scopes as written.
C17_NormalizationIdempotent ==
    /\ \A i \in 1..Len(includedScopes) :
          LET s == includedScopes[i]
              n == IncludedText(s)
          IN  /\ ~HasBackslash(n)
              /\ Len(n) = Len(s)
              /\ \A j \in 1..Len(s) : n[j] = (IF s[j] = "\\" THEN "/" ELSE s[j])
              /\ ~HasBackslash(s) => n = s
              /\ IncludedText(n) = n
    /\ buildStatus = "returned"
          => queryStr = BuildPrimingSqlFromScopes(NormalizedList(includedScopes),
                                                  excludedScopes, oobReads)

C17_Witness ==
    /\ buildStatus = "returned"
    /\ includedScopes = <<Archive, DataDir>>
    /\ excludedScopes = <<>>
    /\ NormalizedList(includedScopes) # includedScopes
    /\ NormalizedList(includedScopes)[2] = DataDir

----------------------------------------------------------------------------
(* searchapi::EnumerateRowsWithCallback, statement by statement *)

\* the most rows of a cursor that is enumerated
MaxEnumRows == 3

\* bool continueFetch = true; never assigned again
continueFetch == TRUE

\* a do-while that never ends
FetchAlways(rowCountReturned) == TRUE

\* while (continueFetch && (rowCountReturned > 0))
FetchAgain(rowCountReturned) == continueFetch /\ rowCountReturned > 0

\* the row counts GetNextRows can hand out when `remaining` rows are left: none at the
\* end of the cursor, else at least one and at most the buffer
BatchSizes(remaining) ==
    IF remaining = 0 THEN {0}
    ELSE 1..(IF remaining < RowBufferSize THEN remaining ELSE RowBufferSize)

\* what can go wrong in one round of the for loop
RowOutcomes == {"ok", "GetRowFromHROW", "as<IPropertyStore>", "callback"}

EnumThrows ==
    /\ enumPc' = "thrown"
    /\ UNCHANGED <<rowsInCursor, cursorPos, rowBuffer, rowIndex, callbackLog, heldRows, batchSizes>>

\* the call, up to the do: rowset->QueryInterface(IID_PPV_ARGS(getRow.put()))
EnumerateRowsWithCallback(rows, ok) ==
    /\ enumPc \in {"idle", "returned", "thrown"}
    /\ enumPc' = IF ok THEN "fetch" ELSE "thrown"
    /\ rowsInCursor' = rows
    /\ cursorPos' = 0
    /\ rowBuffer' = <<>>
    /\ rowIndex' = 0
    /\ callbackLog' = <<>>
    /\ heldRows' = {}
    /\ batchSizes' = <<>>
    /\ UNCHANGED <<buildVars, providerVars, cacheVars, countVars>>

GetNextRows(n, ok) ==
    /\ enumPc = "fetch"
    /\ IF ok
       THEN /\ n \in BatchSizes(rowsInCursor - cursorPos)
            /\ rowBuffer' = [k \in 1..n |-> cursorPos + k]
            /\ heldRows' = heldRows \cup {cursorPos + k : k \in 1..n}
            /\ cursorPos' = cursorPos + n
            /\ batchSizes' = Append(batchSizes, n)
            /\ rowIndex' = 0
            /\ enumPc' = "rows"
            /\ UNCHANGED <<rowsInCursor, callbackLog>>
       ELSE n = 0 /\ EnumThrows
    /\ UNCHANGED <<buildVars, providerVars, cacheVars, countVars>>

\* one round of the for loop: GetRowFromHROW, as<IPropertyStore>, callback
GetRowFromHROW(outcome) ==
    /\ enumPc = "rows"
    /\ continueFetch /\ rowIndex < Len(rowBuffer)
    /\ CASE outcome = "ok" ->
              /\ callbackLog' = Append(callbackLog, rowBuffer[rowIndex + 1])
              /\ rowIndex' = rowIndex + 1
              /\ UNCHANGED <<enumPc, rowsInCursor, cursorPos, rowBuffer, heldRows, batchSizes>>
         [] outcome = "callback" ->
              /\ callbackLog' = Append(callbackLog, rowBuffer[rowIndex + 1])
              /\ enumPc' = "thrown"
              /\ UNCHANGED <<rowsInCursor, cursorPos, rowBuffer, rowIndex, heldRows, batchSizes>>
         [] OTHER -> EnumThrows
    /\ UNCHANGED <<buildVars, providerVars, cacheVars, countVars>>

\* after the for loop: ReleaseRows, then the while test
ReleaseRows(ok) ==
    /\ enumPc = "rows"
    /\ ~(continueFetch /\ rowIndex < Len(rowBuffer))
    /\ IF ok
       THEN /\ heldRows' = heldRows \ {rowBuffer[k] : k \in 1..Len(rowBuffer)}
            /\ enumPc' = IF FetchAgain(Len(rowBuffer)) THEN "fetch" ELSE "returned"
            /\ UNCHANGED <<rowsInCursor, cursorPos, rowBuffer, rowIndex, callbackLog, batchSizes>>
       ELSE EnumThrows
    /\ UNCHANGED <<buildVars, providerVars, cacheVars, countVars>>

InitEnum == BuildIdle /\ ProviderInit /\ CacheIdle /\ EnumIdle /\ CountIdle

CallEnumerate ==
    \E rows \in 0..MaxEnumRows, ok \in BOOLEAN : EnumerateRowsWithCallback(rows, ok)

FetchBatch == \E n \in 0..MaxEnumRows, ok \in BOOLEAN : GetNextRows(n, ok)

ProcessRow == \E outcome \in RowOutcomes : GetRowFromHROW(outcome)

ReleaseBatch == \E ok \in BOOLEAN : ReleaseRows(ok)

\* the statements of a started run
EnumRun == FetchBatch \/ ProcessRow \/ ReleaseBatch

NextEnum == CallEnumerate \/ EnumRun

\* a started call keeps executing: the function is sequential code without a wait
SpecEnum == InitEnum /\ [][NextEnum]_vars /\ WF_vars(EnumRun)

----------------------------------------------------------------------------
(* Enumeration *)

\* C18: EnumerateRowsWithCallback passes the rows to the callback once each and in
\* cursor order, has released every fetched batch whenever it asks for the next one,
\* fetches nothing after a batch of zero rows, returns with every row delivered and
\* nothing held when no call failed, and every started run ends.
C18_EnumerateDeliversAndEnds ==
    /\ [](callbackLog = [k \in 1..Len(callbackLog) |-> k])
    /\ [](enumPc = "fetch" => heldRows = {})
    /\ [](\A k \in 1..(Len(batchSizes) - 1) : batchSizes[k] > 0)
    /\ [](enumPc = "returned"
            => /\ callbackLog = [k \in 1..rowsInCursor |-> k]
               /\ heldRows = {}
               /\ batchSizes # <<>> /\ batchSizes[Len(batchSizes)] = 0)
    /\ (enumPc = "fetch") ~> (enumPc \in {"returned", "thrown"})

C18_Witness ==
    /\ enumPc = "returned"
    /\ rowsInCursor = 3
    /\ batchSizes = <<2, 1, 0>>
    /\ callbackLog = <<1, 2, 3>>

\* C22: when EnumerateRowsWithCallback ends with a failure raised inside the for loop
\* (GetRowFromHROW, as<IPropertyStore> or the callback), the batch it had fetched has
\* been released: no row handle is still held.
C22_FailureReleasesBatch ==
    (enumPc = "thrown" /\ rowIndex < Len(rowBuffer)) => heldRows = {}

----------------------------------------------------------------------------
(* The example application's BuildPrimingSqlFromScopes *)

\* L" SCOPE="
ExampleScopeEq == <<" ", "S", "C", "O", "P", "E", "=">>
\* L" SCOPE!="
ExampleScopeNe == <<" ", "S", "C", "O", "P", "E", "!", "=">>

\* i < (includedScopes.size() - 1) in size_t arithmetic: for an empty list size() - 1
\* wraps to SIZE_MAX and the test holds for every i
ExampleMoreThanIncluded(i, included) == Len(included) = 0 \/ i < Len(included) - 1

RECURSIVE ExampleIncludedLoop(_, _, _)
ExampleIncludedLoop(str, included, i) ==
    IF ~(i < Len(included)) THEN str
    ELSE LET s1 == str \o ExampleScopeEq
             s2 == s1 \o included[i + 1]
             s3 == IF ExampleMoreThanIncluded(i, included) THEN s2 \o AndConn ELSE s2
         IN  ExampleIncludedLoop(s3, included, i + 1)

RECURSIVE ExampleExcludedLoop(_, _, _, _)
ExampleExcludedLoop(str, included, excluded, i) ==
    IF ~(i < Len(excluded)) THEN str
    ELSE LET s1 == str \o ExampleScopeNe
             s2 == s1 \o excluded[i + 1]
             s3 == IF ExampleMoreThanIncluded(i, included) THEN s2 \o AndConn ELSE s2
         IN  ExampleExcludedLoop(s3, included, excluded, i + 1)

ExampleBuildPrimingSqlFromScopes(included, excluded) ==
    ExampleExcludedLoop(ExampleIncludedLoop(SelectFromWhere, included, 0),
                        included, excluded, 0)

CallExampleBuildPrimingSql ==
    /\ buildStatus = "input"
    /\ oobReads' = <<>>
    /\ buildStatus' = "returned"
    /\ queryStr' = ExampleBuildPrimingSqlFromScopes(includedScopes, excludedScopes)
    /\ UNCHANGED <<includedScopes, excludedScopes, providerVars, cacheVars, enumVars, countVars>>

NextExample == CallExampleBuildPrimingSql \/ NextBuildCall

SpecExample == InitBuild /\ [][NextExample]_vars

\* C19: in the example application's builder the AND after an exclusion term depends on
\* the excluded list's length: the output ends with the exclusion terms joined by AND,
\* one AND between every two consecutive terms, and never ends with AND.
C19_ExampleAndByExcludedLength ==
    Returned
        => /\ ~EndsWith(queryStr, AndConn)
           /\ EndsWith(queryStr,
                       JoinWith([i \in 1..Len(excludedScopes) |->
                                    ExampleScopeNe \o excludedScopes[i]], AndConn))

----------------------------------------------------------------------------
(* The stored pair *)

\* C20: whenever a provider holds a priming cursor, its stored base query text is the
\* text whose execution produced that cursor.
C20_StoredTextProducedStoredCursor ==
    \A p \in Providers :
        m_prefetchRowset[p] # NullRowset
            => (m_prefetchRowset[p] = primed[p].rowset /\ m_prefetchSql[p] = primed[p].sql)

----------------------------------------------------------------------------
(* The do-while of FileSearchProvider::GetTotalFilesInIndex, statement by statement *)

\* the most rows left in the cursor that is counted
MaxCountRows == 3

\* the most the running sum is below ULONGLONG_MAX when the rounds of a long count are
\* taken up
MaxGap == 2

\* ULONGLONG_MAX, which is also ULONGLONG_ERROR
Max64 == <<LimbBase - 1, LimbBase - 1, LimbBase - 1, LimbBase - 1>>

\* ULONGLONG_MAX - gap
NearMax(gap) == [Max64 EXCEPT ![1] = @ - gap]

\* digit i and the ones above it, with `carry` added in at digit i
RECURSIVE AddCarry(_, _, _)
AddCarry(digits, carry, i) ==
    IF i > Len(digits) THEN [sum |-> digits, carry |-> carry]
    ELSE LET s == digits[i] + carry
         IN  AddCarry([digits EXCEPT ![i] = s % LimbBase], s \div LimbBase, i + 1)

\* an addition that keeps the low 64 bits and reports success
WrappingAdd(ullAugend, ullAddend) ==
    [ok |-> TRUE, result |-> AddCarry(ullAugend, ullAddend, 1).sum]

\* ULongLongAdd(ullAugend, ullAddend, &result): the sum, or on overflow
\* INTSAFE_E_ARITHMETIC_OVERFLOW with ULONGLONG_ERROR as the result
ULongLongAdd(ullAugend, ullAddend) ==
    LET r == AddCarry(ullAugend, ullAddend, 1)
    IN  IF r.carry = 0 THEN [ok |-> TRUE, result |-> r.sum]
        ELSE [ok |-> FALSE, result |-> Max64]

CountPositions == {"countFetch", "countAdd", "countRelease", "countReturned", "countThrown"}

\* rowset and getRow are locals: the unwinding releases the cursor, and with the cursor
\* go the row handles it had handed out
CountThrows ==
    /\ enumPc' = "countThrown"
    /\ heldRows' = {}
    /\ UNCHANGED <<rowsInCursor, cursorPos, rowBuffer, rowIndex, callbackLog, batchSizes,
                   totalAtEntry>>

\* the rounds begin: the cursor has `rows` rows left and the sum so far is `sum`
CountRounds(rows, sum, ok) ==
    /\ enumPc \in {"idle", "countReturned", "countThrown"}
    /\ enumPc' = IF ok THEN "countFetch" ELSE "countThrown"
    /\ rowsInCursor' = rows
    /\ cursorPos' = 0
    /\ rowBuffer' = <<>>
    /\ rowIndex' = 0
    /\ callbackLog' = <<>>
    /\ heldRows' = {}
    /\ batchSizes' = <<>>
    /\ totalFetched' = sum
    /\ totalAtEntry' = sum
    /\ UNCHANGED <<buildVars, providerVars, cacheVars>>

\* the call, up to the do: ExecuteQuery(sql), rowset.as<IGetRow>(), totalFetched{ 0 }
EnterCount(rows, ok) == CountRounds(rows, Zero64, ok)

\* a count that has been running for long: the rounds before this one have brought the
\* sum to within `gap` of ULONGLONG_MAX
LateInCount(rows, gap) == CountRounds(rows, NearMax(gap), TRUE)

CountGetNextRows(n, ok) ==
    /\ enumPc = "countFetch"
    /\ IF ok
       THEN /\ n \in BatchSizes(rowsInCursor - cursorPos)
            /\ rowBuffer' = [k \in 1..n |-> cursorPos + k]
            /\ heldRows' = heldRows \cup {cursorPos + k : k \in 1..n}
            /\ cursorPos' = cursorPos + n
            /\ batchSizes' = Append(batchSizes, n)
            /\ enumPc' = "countAdd"
            /\ UNCHANGED <<rowsInCursor, rowIndex, callbackLog, totalFetched, totalAtEntry>>
       ELSE n = 0 /\ CountThrows /\ UNCHANGED totalFetched
    /\ UNCHANGED <<buildVars, providerVars, cacheVars>>

\* THROW_IF_FAILED(ULongLongAdd(totalFetched, rowCountReturned, &totalFetched))
CountAdd ==
    /\ enumPc = "countAdd"
    /\ LET r == ULongLongAdd(totalFetched, Len(rowBuffer))
       IN  /\ totalFetched' = r.result
           /\ IF r.ok
              THEN /\ enumPc' = "countRelease"
                   /\ UNCHANGED <<rowsInCursor, cursorPos, rowBuffer, rowIndex, callbackLog,
                                  heldRows, batchSizes, totalAtEntry>>
              ELSE CountThrows
    /\ UNCHANGED <<buildVars, providerVars, cacheVars>>

\* rowset->ReleaseRows, then the while test; return totalFetched
CountReleaseRows(ok) ==
    /\ enumPc = "countRelease"
    /\ IF ok
       THEN /\ heldRows' = heldRows \ {rowBuffer[k] : k \in 1..Len(rowBuffer)}
            /\ enumPc' = IF FetchAgain(Len(rowBuffer)) THEN "countFetch" ELSE "countReturned"
            /\ UNCHANGED <<rowsInCursor, cursorPos, rowBuffer, rowIndex, callbackLog,
                           batchSizes, totalFetched, totalAtEntry>>
       ELSE CountThrows /\ UNCHANGED totalFetched
    /\ UNCHANGED <<buildVars, providerVars, cacheVars>>

InitCount == BuildIdle /\ ProviderInit /\ CacheIdle /\ EnumIdle /\ CountIdle

CallCount == \E rows \in 0..MaxCountRows, ok \in BOOLEAN : EnterCount(rows, ok)

ResumeCount == \E rows \in 0..MaxCountRows, gap \in 0..MaxGap : LateInCount(rows, gap)

CountFetch == \E n \in 0..MaxCountRows, ok \in BOOLEAN : CountGetNextRows(n, ok)

CountRelease == \E ok \in BOOLEAN : CountReleaseRows(ok)

\* the statements of a started count
CountRun == CountFetch \/ CountAdd \/ CountRelease

NextCount == CallCount \/ ResumeCount \/ CountRun

\* a started call keeps executing: the function is sequential code without a wait
SpecCount == InitCount /\ [][NextCount]_vars /\ WF_vars(CountRun)

----------------------------------------------------------------------------
(* Counting *)

\* entry + k does not fit in 64 bits; entry is zero or within a digit of ULONGLONG_MAX
Overflows(entry, k) == entry # Zero64 /\ entry[1] + k >= LimbBase

\* entry + k, when it fits
Plus(entry, k) == [entry EXCEPT ![1] = @ + k]

RECURSIVE SumOf(_)
SumOf(sizes) == IF sizes = <<>> THEN 0 ELSE Head(sizes) + SumOf(Tail(sizes))

\* C21: GetTotalFilesInIndex returns the sum of the row counts of all batches fetched, the
\* last of them the first empty batch; no fetched row handle is held whenever it asks for
\* the next batch and when it returns or throws; every started count ends; and when the
\* running sum would exceed 64 bits it ends with a failure, never going on or returning
\* with a wrapped value.
C21_CountSumsReleasesEnds ==
    /\ [](enumPc \in {"countFetch", "countRelease", "countReturned"}
            => /\ ~Overflows(totalAtEntry, SumOf(batchSizes))
               /\ totalFetched = Plus(totalAtEntry, SumOf(batchSizes)))
    /\ []((enumPc \in CountPositions /\ Overflows(totalAtEntry, SumOf(batchSizes)))
            => enumPc \in {"countAdd", "countThrown"})
    /\ [](enumPc \in CountPositions => \A k \in 1..(Len(batchSizes) - 1) : batchSizes[k] > 0)
    /\ [](enumPc \in {"countFetch", "countReturned", "countThrown"} => heldRows = {})
    /\ [](enumPc = "countReturned"
            => /\ batchSizes # <<>> /\ batchSizes[Len(batchSizes)] = 0
               /\ SumOf(batchSizes) = rowsInCursor)
    /\ (enumPc = "countFetch") ~> (enumPc \in {"countReturned", "countThrown"})

C21_Witness ==
    /\ enumPc = "countReturned"
    /\ totalAtEntry = NearMax(2)
    /\ batchSizes = <<1, 1, 0>>
    /\ totalFetched = Max64

====
